---------------------------- MODULE Spec2Model ----------------------------
(***************************************************************************)
(* elysia-line: the LINE webhook plugin for Elysia.                        *)
(*                                                                         *)
(*   src/src/core/line-helper.ts     LineHelper: on, handle, reply, push   *)
(*   src/src/plugin/elysia-line.ts   validateSignature, line (onRequest,   *)
(*                                   derive)                               *)
(*   src/test/app.ts                 the example webhook routes            *)
(*                                                                         *)
(* JavaScript is single threaded and runs every callback to completion, so *)
(* one action is one macrotask: the synchronous code of a call together    *)
(* with the promise reactions (microtasks) it triggers.  A transport call  *)
(* (client.replyMessage, client.pushMessage) settles in a later macrotask  *)
(* with an outcome the environment chooses.  A request is suspended in the *)
(* same way at the await of request.text(); from the return of onRequest   *)
(* to the first await of the route handler (derive included) nothing is    *)
(* awaited on, so that stretch belongs to one action.                      *)
(***************************************************************************)
EXTENDS Integers, Sequences, FiniteSets, TLC

\* Bounds of the model.
MaxEvents  == 2     \* events of a batch, dispatch specification
MaxReg     == 3     \* on() calls, dispatch specification
MaxHandle  == 1     \* handle() calls, dispatch specification
JMaxEvents == 2     \* events of a batch, join specification
JMaxReg    == 2     \* on() calls, join specification
JMaxInvs   == 3     \* handler invocations of the handle() call, join specification
LMaxEvents == 1     \* events of a batch, join specification with settling transport
LMaxReg    == 2     \* on() calls, join specification with settling transport
LMaxInvs   == 2     \* handler invocations, join specification with settling transport
MaxSend    == 2     \* reply()/push() calls, messenger specification
MaxReq     == 2     \* HTTP requests, intake specification
MaxChecks  == 2     \* validateSignature calls, verification specification
RMaxEvents == 2     \* events of a batch, repeated-dispatch specification
RMaxReg    == 2     \* on() calls, repeated-dispatch specification
RMaxHandle == 2     \* handle() calls, repeated-dispatch specification
FMaxEvents == 1     \* events of a batch, event-batch specification
FMaxOps    == 3     \* on/handle/reply/push calls, event-batch specification
FMaxGets   == 1     \* getEvents calls, event-batch specification
PMaxEvents == 2     \* events of a batch, registering-handlers specification
PMaxReg    == 2     \* on() calls of the application, registering-handlers specification

VARIABLES
  line,       \* the LineHelper under test: events, handlers, client traffic
  store,      \* the plugin's store: "line-events" and "line-destination"
  reqs,       \* the HTTP requests received, each with its place in the lifecycle
  app,        \* the call of line(options): the plugin made, or the error thrown
  checks      \* the validateSignature and getEvents calls made, each with
              \* what it returned

vars == <<line, store, reqs, app, checks>>

-----------------------------------------------------------------------------
(* Data *)

\* The userId of event.source when the source carries one, NoUser otherwise.
NoUser == 0
UserId == 999

\* Webhook events as far as the code reads them: event.type,
\* event.message.type ("none": no message field), event.replyToken (the
\* position in the batch stands for the token) and event.source.userId.
EventKinds ==
  { [type |-> "message", msub |-> "text",  userId |-> UserId],
    [type |-> "message", msub |-> "text",  userId |-> NoUser],
    [type |-> "message", msub |-> "image", userId |-> UserId],
    [type |-> "follow",  msub |-> "none",  userId |-> UserId] }

MkEvent(k, i) ==
  [type |-> k.type, msub |-> k.msub, userId |-> k.userId, replyToken |-> i]

Batches(kinds, maxLen) ==
  UNION { { [i \in 1..n |-> MkEvent(ks[i], i)] : ks \in [1..n -> kinds] }
          : n \in 0..maxLen }

\* Keys of the handlers map (keyof WebhookEventMap, and the bare "message"
\* that handle() looks up through event.type).
Selectors == {"*", "message:text", "message:image", "message", "follow"}

\* `message:${event.message.type}`
SubtypeKey(msub) ==
  CASE msub = "text"  -> "message:text"
    [] msub = "image" -> "message:image"

\* Handlers are callables of the application.  The kinds modelled:
\*   sync           (event) => {}                        returns undefined
\*   throw          (event) => { throw ... }             throws synchronously
\*   appReply       test/app.ts 57-62: line.reply(...) not awaited
\*   appReplyPush   test/app.ts 16-28: line.reply(...) and, for a source with a
\*                  userId, line.push(...), neither awaited
\*   returnReply    GEMINI.md: return line.reply(...)
\*   replyThenPush  async: await line.reply(...); await line.push(...)
\*   onWild         line.on("*", h) with h a handler that only returns
\*   onText         line.on("message:text", h) with h as above
\*   onSelf         const h = () => { line.on("*", h) }: registers itself
HandlerKinds ==
  {"sync", "throw", "appReply", "appReplyPush", "returnReply", "replyThenPush",
   "onWild", "onText", "onSelf"}

\* A message, and the argument of reply()/push(): a Message or a Message[].
Messages == {"echo", "pushed"}
One(m)   == [tag |-> "one",  val |-> m]
List(ms) == [tag |-> "list", val |-> ms]

\* What a rejected promise carries: the failure of transport call id, or the
\* exception thrown by handler invocation id.
NoError           == [src |-> "none", id |-> 0]
TransportError(t) == [src |-> "transport", id |-> t]
HandlerError(v)   == [src |-> "handler", id |-> v]

-----------------------------------------------------------------------------
(* LineHelper (src/src/core/line-helper.ts) *)

\* constructor: the events given, an empty handlers map, a fresh client.
\*   handlers   Map key -> handler[]; a key not in the map is the empty list
\*              (on() never leaves an empty list in the map)
\*   regLog     history: the on() calls in order
\*   invs       history: the handler invocations in launch order, with the
\*              state of the value each returned (the promises of handle())
\*   hcalls     the handle() calls and the state of the promise of each (regs:
\*              history, the number of on() calls made before the call)
\*   sends      the reply()/push() calls and the state of the promise of each
\*   transport  the client.replyMessage/pushMessage calls, in order
LineHelper(evs) ==
  [ events    |-> evs,
    handlers  |-> [s \in Selectors |-> <<>>],
    regLog    |-> <<>>,
    invs      |-> <<>>,
    hcalls    |-> <<>>,
    sends     |-> <<>>,
    transport |-> <<>> ]

\* on(eventType, handler): append to the list of the key.
on(L, eventType, handler) ==
  [L EXCEPT !.handlers[eventType] = Append(@, handler),
            !.regLog = Append(@, [sel |-> eventType, h |-> handler])]

\* messageArray keeping only the first message of a list.
messageArrayFirstOnly(messages) ==
  IF messages.tag = "list"
  THEN (IF Len(messages.val) > 1 THEN <<messages.val[1]>> ELSE messages.val)
  ELSE <<messages.val>>

\* Array.isArray(messages) ? messages : [messages]
messageArray(messages) ==
  IF messages.tag = "list" THEN messages.val ELSE <<messages.val>>

\* The synchronous part of reply()/push(), up to the await of the one client
\* call: by is the handler invocation that called (0: the application
\* itself), awaited tells whether the caller keeps the returned promise.
Send(L, op, to, messages, by, awaited) ==
  LET s == Len(L.sends) + 1 IN
  [L EXCEPT
     !.sends = Append(@, [op |-> op, to |-> to, arg |-> messages, by |-> by,
                          awaited |-> awaited, state |-> "pending",
                          error |-> NoError]),
     !.transport = Append(@, [op |-> op, to |-> to,
                              messages |-> messageArray(messages),
                              send |-> s, state |-> "pending"])]

reply(L, replyToken, messages, by, awaited) ==
  Send(L, "reply", replyToken, messages, by, awaited)

push(L, to, messages, by, awaited) ==
  Send(L, "push", to, messages, by, awaited)

\* SendSettled with one more attempt after a failed client call.
SendSettledRetry(L, t, ok) ==
  LET s == L.transport[t].send
      first == \A u \in 1..Len(L.transport) : L.transport[u].send = s => u = t
  IN IF ~ok /\ first
     THEN [L EXCEPT !.transport[t].state = "failed",
                    !.transport = Append(@, [L.transport[t] EXCEPT !.state = "pending"])]
     ELSE [L EXCEPT
             !.transport[t].state = IF ok THEN "ok" ELSE "failed",
             !.sends[s].state = IF ok THEN "fulfilled" ELSE "rejected",
             !.sends[s].error = IF ok THEN NoError ELSE TransportError(t)]

\* The rest of reply()/push() once client call t has settled: success
\* resolves the promise, a failure is logged and thrown again.
SendSettled(L, t, ok) ==
  LET s == L.transport[t].send IN
  [L EXCEPT
     !.transport[t].state = IF ok THEN "ok" ELSE "failed",
     !.sends[s].state = IF ok THEN "fulfilled" ELSE "rejected",
     !.sends[s].error = IF ok THEN NoError ELSE TransportError(t)]

\* One handler invocation, handler(event), up to its first await: the handler
\* registered at position pos under key sel, called for event e by handle()
\* call number call.  The invocation is appended to invs with the state of
\* the value it returned: "fulfilled" for undefined, "pending" for a promise
\* (wait: the send it awaits), "threw" for an exception.
InvokeHandler(L, call, e, sel, pos) ==
  LET kind  == L.handlers[sel][pos]
      event == L.events[e]
      v     == Len(L.invs) + 1
      inv(state, wait, error) ==
        [call |-> call, ev |-> e, sel |-> sel, pos |-> pos, kind |-> kind,
         state |-> state, wait |-> wait, error |-> error]
      done(M)    == [M EXCEPT !.invs = Append(@, inv("fulfilled", 0, NoError))]
      waiting(M) == [M EXCEPT !.invs = Append(@, inv("pending", Len(M.sends), NoError))]
  IN CASE kind = "sync"  -> done(L)
       [] kind = "throw" ->
            [L EXCEPT !.invs = Append(@, inv("threw", 0, HandlerError(v)))]
       [] kind = "appReply" ->
            done(reply(L, event.replyToken, One("echo"), v, FALSE))
       [] kind = "appReplyPush" ->
            LET L1 == reply(L, event.replyToken, One("echo"), v, FALSE) IN
            done(IF event.userId # NoUser
                 THEN push(L1, event.userId, One("pushed"), v, FALSE)
                 ELSE L1)
       [] kind \in {"returnReply", "replyThenPush"} ->
            waiting(reply(L, event.replyToken, One("echo"), v, TRUE))
       [] kind = "onWild" -> done(on(L, "*", "sync"))
       [] kind = "onText" -> done(on(L, "message:text", "sync"))
       [] kind = "onSelf" -> done(on(L, "*", "onSelf"))

\* StepHandlers with steps 2 and 3 exchanged: the handlers of the bare type
\* before those of message:<subtype>.
StepHandlersTypeFirst(L, event, step, wild) ==
  CASE step = 1 ->
         [key |-> "*", list |-> IF wild THEN L.handlers["*"] ELSE <<>>]
    [] step = 3 ->
         IF event.type = "message" /\ event.msub # "none"
         THEN [key |-> SubtypeKey(event.msub),
               list |-> L.handlers[SubtypeKey(event.msub)]]
         ELSE [key |-> "none", list |-> <<>>]
    [] step = 2 ->
         [key |-> event.type, list |-> L.handlers[event.type]]

\* StepHandlers without the test of event.type in step 2: the message:text
\* handlers run for every event.
StepHandlersAnyType(L, event, step, wild) ==
  CASE step = 1 ->
         [key |-> "*", list |-> IF wild THEN L.handlers["*"] ELSE <<>>]
    [] step = 2 ->
         [key |-> "message:text", list |-> L.handlers["message:text"]]
    [] step = 3 ->
         [key |-> event.type, list |-> L.handlers[event.type]]

\* The handlers one step of the loop body looks at, for steps 1 (wildcard),
\* 2 (message:<subtype>) and 3 (event.type): the key and its list.  wild is
\* whether the map had a "*" list when handle() began.
StepHandlers(L, event, step, wild) ==
  CASE step = 1 ->
         [key |-> "*", list |-> IF wild THEN L.handlers["*"] ELSE <<>>]
    [] step = 2 ->
         IF event.type = "message" /\ event.msub # "none"
         THEN [key |-> SubtypeKey(event.msub),
               list |-> L.handlers[SubtypeKey(event.msub)]]
         ELSE [key |-> "none", list |-> <<>>]
    [] step = 3 ->
         [key |-> event.type,
          list |-> IF event.type \in Selectors THEN L.handlers[event.type] ELSE <<>>]

\* GoesOn for a loop that awaits each handler before it launches the next:
\* it goes on only after an invocation that has settled well.
GoesOnWhenSettled(state) == state = "fulfilled"

\* Whether the loop of handle() goes on after an invocation that threw: it
\* does not, the exception leaves the loop and handle().
GoesOn(state) == state # "threw"

\* The number of on() calls made by handlers after which the loop of
\* handle() is taken to run for ever.  The handlers registered by the
\* application run at most once per event; a handler registered by a handler
\* registers, when it runs, itself under "*" or nothing; so a loop that has
\* seen more registrations than this is running handlers that register
\* themselves into the list it is iterating.
MaxGrow == PMaxReg * PMaxEvents

\* The loop of handle(): for each event, for steps 1..3, for each handler of
\* the list, promises.push(handler(event)).  The lists are the arrays of the
\* map themselves, read again at every step of the iteration: a handler
\* pushed while the loop runs is reached by it.  Returns the helper,
\* whether an exception ended the loop, and whether the loop runs for ever.
RECURSIVE RunLoop(_, _, _, _, _, _)
RunLoop(L, call, e, step, i, wild) ==
  IF e > Len(L.events) THEN [L |-> L, aborted |-> FALSE, hung |-> FALSE]
  ELSE IF Len(L.regLog) - L.hcalls[call].regs > MaxGrow
  THEN [L |-> L, aborted |-> FALSE, hung |-> TRUE]
  ELSE LET hs == StepHandlers(L, L.events[e], step, wild) IN
       IF i <= Len(hs.list)
       THEN LET L1 == InvokeHandler(L, call, e, hs.key, i) IN
            IF GoesOn(L1.invs[Len(L1.invs)].state)
            THEN RunLoop(L1, call, e, step, i + 1, wild)
            ELSE [L |-> L1, aborted |-> TRUE, hung |-> FALSE]
       ELSE IF step < 3 THEN RunLoop(L, call, e, step + 1, 1, wild)
       ELSE RunLoop(L, call, e + 1, 1, 1, wild)

\* The invocations of handle() call number call: its promises array.
PromisesOf(L, call) == { v \in 1..Len(L.invs) : L.invs[v].call = call }

\* PromiseAll fulfilling as soon as one promise is fulfilled (Promise.any).
PromiseAny(L, call, v) ==
  IF L.hcalls[call].state # "awaiting" THEN L
  ELSE IF v # 0 /\ L.invs[v].state = "rejected"
  THEN [L EXCEPT !.hcalls[call].state = "rejected",
                 !.hcalls[call].error = L.invs[v].error]
  ELSE IF PromisesOf(L, call) = {} \/
          \E w \in PromisesOf(L, call) : L.invs[w].state = "fulfilled"
  THEN [L EXCEPT !.hcalls[call].state = "fulfilled"]
  ELSE L

\* PromiseAll waiting for every promise to settle before it rejects
\* (Promise.allSettled, then the first failure).
PromiseAllSettled(L, call, v) ==
  IF L.hcalls[call].state # "awaiting" THEN L
  ELSE IF \E w \in PromisesOf(L, call) : L.invs[w].state = "pending" THEN L
  ELSE IF \E w \in PromisesOf(L, call) : L.invs[w].state = "rejected"
  THEN [L EXCEPT !.hcalls[call].state = "rejected",
                 !.hcalls[call].error = L.invs[v].error]
  ELSE [L EXCEPT !.hcalls[call].state = "fulfilled"]

\* PromiseAll with a catch that logs and does not throw again (the handle()
\* of the legacy src/index.ts).
PromiseAllSwallowed(L, call, v) ==
  IF L.hcalls[call].state # "awaiting" THEN L
  ELSE IF v # 0 /\ L.invs[v].state = "rejected"
  THEN [L EXCEPT !.hcalls[call].state = "fulfilled"]
  ELSE IF \A w \in PromisesOf(L, call) : L.invs[w].state = "fulfilled"
  THEN [L EXCEPT !.hcalls[call].state = "fulfilled"]
  ELSE L

\* PromiseAll that never fulfils: it only reacts to a rejection.
PromiseAllNeverFulfils(L, call, v) ==
  IF L.hcalls[call].state # "awaiting" THEN L
  ELSE IF v # 0 /\ L.invs[v].state = "rejected"
  THEN [L EXCEPT !.hcalls[call].state = "rejected",
                 !.hcalls[call].error = L.invs[v].error]
  ELSE L

\* PromiseAll keeping the reason of the latest rejection instead of the first.
PromiseAllLastError(L, call, v) ==
  IF v # 0 /\ L.invs[v].state = "rejected"
  THEN [L EXCEPT !.hcalls[call].state = "rejected",
                 !.hcalls[call].error = L.invs[v].error]
  ELSE IF L.hcalls[call].state # "awaiting" THEN L
  ELSE IF \A w \in PromisesOf(L, call) : L.invs[w].state = "fulfilled"
  THEN [L EXCEPT !.hcalls[call].state = "fulfilled"]
  ELSE L

\* await Promise.all(promises), as it reacts when invocation v of the call
\* has settled (v = 0: when handle() reaches the await): it rejects with the
\* reason of the first promise that rejects, and fulfils when all are
\* fulfilled; the catch of handle() logs and throws again.
PromiseAll(L, call, v) ==
  IF L.hcalls[call].state # "awaiting" THEN L
  ELSE IF v # 0 /\ L.invs[v].state = "rejected"
  THEN [L EXCEPT !.hcalls[call].state = "rejected",
                 !.hcalls[call].error = L.invs[v].error]
  ELSE IF \A w \in PromisesOf(L, call) : L.invs[w].state = "fulfilled"
  THEN [L EXCEPT !.hcalls[call].state = "fulfilled"]
  ELSE L

\* handle() that takes the events off the batch as it dispatches them
\* (this.events.shift() in place of the for-of over this.events).
handleConsuming(L) ==
  LET call == Len(L.hcalls) + 1
      L0   == [L EXCEPT !.hcalls = Append(@, [state |-> "awaiting", error |-> NoError,
                                               regs |-> Len(L.regLog)])]
      r    == RunLoop(L0, call, 1, 1, 1, L.handlers["*"] # <<>>)
  IN [PromiseAll(r.L, call, 0) EXCEPT !.events = <<>>]

\* handle() with a guard against a second dispatch: a call on a helper that
\* has dispatched before returns without running the loop.
handleOnce(L) ==
  [L EXCEPT !.hcalls = Append(@, [state |-> "fulfilled", error |-> NoError,
                                  regs |-> Len(L.regLog)])]

\* handle(): the loop, then the await of Promise.all.  An exception thrown
\* by a handler inside the loop rejects the promise of handle() at once.
handle(L) ==
  LET call == Len(L.hcalls) + 1
      L0   == [L EXCEPT !.hcalls = Append(@, [state |-> "awaiting", error |-> NoError,
                                               regs |-> Len(L.regLog)])]
      r    == RunLoop(L0, call, 1, 1, 1, L.handlers["*"] # <<>>)
  IN IF r.hung
     THEN [r.L EXCEPT !.hcalls[call].state = "looping"]
     ELSE IF r.aborted
     THEN [r.L EXCEPT !.hcalls[call].state = "rejected",
                      !.hcalls[call].error = r.L.invs[Len(r.L.invs)].error]
     ELSE PromiseAll(r.L, call, 0)

\* getEvents(): the events field itself.
getEvents(L) == L.events

\* A handler goes on after the send it awaited has settled.  returnReply
\* settles as its reply did.  replyThenPush: a rejected send rejects the
\* handler; after the reply it pushes (to a source with a userId) and awaits
\* that; after the push it is done.
ResumeHandler(L, v, s) ==
  LET inv   == L.invs[v]
      event == L.events[inv.ev]
      send  == L.sends[s]
  IN IF send.state = "rejected"
     THEN [L EXCEPT !.invs[v].state = "rejected", !.invs[v].wait = 0,
                    !.invs[v].error = send.error]
     ELSE IF inv.kind = "replyThenPush" /\ send.op = "reply" /\ event.userId # NoUser
     THEN LET L1 == push(L, event.userId, One("pushed"), v, TRUE) IN
          [L1 EXCEPT !.invs[v].wait = Len(L1.sends)]
     ELSE [L EXCEPT !.invs[v].state = "fulfilled", !.invs[v].wait = 0]

\* TransportSettled with cancellation: once the handle() call is no longer
\* awaiting, the handlers it launched are not resumed.
TransportSettledCancelling(L, t, ok) ==
  LET L1 == SendSettled(L, t, ok)
      s  == L1.transport[t].send
      v  == L1.sends[s].by
  IN IF L1.sends[s].state = "pending" \/ ~L1.sends[s].awaited \/ v = 0 THEN L1
     ELSE IF L1.invs[v].state # "pending" \/ L1.invs[v].wait # s THEN L1
     ELSE IF L1.hcalls[L1.invs[v].call].state # "awaiting" THEN L1
     ELSE LET L2 == ResumeHandler(L1, v, s) IN
          IF L2.invs[v].state = "pending" THEN L2
          ELSE PromiseAll(L2, L2.invs[v].call, v)

\* Client call t settles: reply()/push() finishes, the handler awaiting it
\* (if one does) goes on, and the handle() call that launched that handler
\* sees the handler's promise settle.
TransportSettled(L, t, ok) ==
  LET L1 == SendSettled(L, t, ok)
      s  == L1.transport[t].send
      v  == L1.sends[s].by
  IN IF L1.sends[s].state = "pending" \/ ~L1.sends[s].awaited \/ v = 0 THEN L1
     ELSE IF L1.invs[v].state # "pending" \/ L1.invs[v].wait # s THEN L1
     ELSE LET L2 == ResumeHandler(L1, v, s) IN
          IF L2.invs[v].state = "pending" THEN L2
          ELSE PromiseAll(L2, L2.invs[v].call, v)

-----------------------------------------------------------------------------
(* The plugin (src/src/plugin/elysia-line.ts) *)

\* options.channelSecret and options.channelAccessToken of the plugin under
\* test, and another key.
channelSecret      == "secret"
channelAccessToken == "token"
OtherSecret        == "other"

\* An option of line(options): left out (undefined) or a string.
Absent   == [given |-> FALSE, val |-> ""]
Given(s) == [given |-> TRUE, val |-> s]
MkOptions(secret, token) ==
  [channelSecret |-> secret, channelAccessToken |-> token]

\* !option: undefined and "" are falsy.
Missing(option) == ~option.given \/ option.val = ""

\* Before line() is called.
NoApp ==
  [called |-> FALSE, made |-> FALSE, error |-> "",
   options |-> MkOptions(Absent, Absent)]

\* line(options) without the test of channelAccessToken.
linePluginTokenUnchecked(options) ==
  IF Missing(options.channelSecret)
  THEN [called |-> TRUE, made |-> FALSE,
        error |-> "channelSecret is required", options |-> options]
  ELSE [called |-> TRUE, made |-> TRUE, error |-> "", options |-> options]

\* line(options): throws when an option is missing, before the Elysia
\* instance with its state, onRequest and derive is made.
linePlugin(options) ==
  IF Missing(options.channelSecret)
  THEN [called |-> TRUE, made |-> FALSE,
        error |-> "channelSecret is required", options |-> options]
  ELSE IF Missing(options.channelAccessToken)
  THEN [called |-> TRUE, made |-> FALSE,
        error |-> "channelAccessToken is required", options |-> options]
  ELSE [called |-> TRUE, made |-> TRUE, error |-> "", options |-> options]

\* Raw request bodies, each with what JSON.parse makes of it: json is whether
\* the text parses; hasEvents/hasDest whether the payload has the field;
\* shape is "envelope" for an object, "invalid" for a text that does not
\* parse, and for JSON that is no envelope "null" (the value null), "scalar"
\* (a number, string or boolean) or "badEvents" (an object whose events are
\* no webhook events).
TextEvent   == [type |-> "message", msub |-> "text", userId |-> UserId]
FollowEvent == [type |-> "follow", msub |-> "none", userId |-> UserId]
Body(id, json, hasEvents, kinds, hasDest, dest) ==
  [id |-> id, json |-> json, hasEvents |-> hasEvents,
   events |-> [i \in 1..Len(kinds) |-> MkEvent(kinds[i], i)],
   hasDest |-> hasDest, destination |-> dest,
   shape |-> IF json THEN "envelope" ELSE "invalid"]

\* An element of events that is no event: it has no type, message or
\* replyToken.
JunkEvent ==
  [type |-> "undefined", msub |-> "none", userId |-> NoUser, replyToken |-> 0]

Malformed(id, shape, events) ==
  [id |-> id, json |-> TRUE, hasEvents |-> events # <<>>, events |-> events,
   hasDest |-> FALSE, destination |-> "", shape |-> shape]

Bodies ==
  { Body(1, TRUE, TRUE, <<TextEvent>>, TRUE, "U123"),
    Body(2, TRUE, TRUE, <<FollowEvent, TextEvent>>, TRUE, "U456"),
    Body(3, TRUE, FALSE, <<>>, FALSE, ""),
    Body(4, FALSE, FALSE, <<>>, FALSE, ""),
    Malformed(5, "null", <<>>),
    Malformed(6, "scalar", <<>>),
    Malformed(7, "badEvents", <<JunkEvent>>) }

\* The value of request.headers.get("x-line-signature"): null, "", or a
\* base64 digest, which stands for the key and the text it was made from
\* (HMAC-SHA256 taken as collision free).
NoHeader    == [present |-> FALSE, key |-> "", msg |-> 0]
EmptyHeader == [present |-> TRUE, key |-> "", msg |-> 0]

\* createHmac("sha256", secret).update(body).digest("base64")
createHmac(secret, body) == [present |-> TRUE, key |-> secret, msg |-> body.id]

\* validateSignature looking at the key of the digest only, not at the text
\* it was made from.
validateSignatureAnyBody(body, signature, secret) ==
  signature.present /\ createHmac(secret, body).key = signature.key

\* hash === signature, hash being the digest of body under secret.
validateSignature(body, signature, secret) ==
  createHmac(secret, body) = signature

\* !signature: null and "" are falsy.
Falsy(signature) == signature \in {NoHeader, EmptyHeader}

\* A request in its lifecycle.
\*   pc       "reading"    onRequest awaits request.text()
\*            "hooked"     onRequest returned nothing: derive and the route follow
\*            "responded"  onRequest returned a response: the lifecycle ended
\*            "done"       the route handler has run
\*   readOk   request.text() resolved
\*   status   set.status as onRequest left it (0: not set)
\*   parsed   history: JSON.parse(body) was called
\*   stored   history: the request wrote the store
\*   decoded  history: the events and destination it wrote
\*   seen     history: the events of the store when derive ran
\*   hasLine, line   what derive gave the route as line
\*   result   what the route returned
NewRequest(method, signature, body, pc) ==
  [method |-> method, sig |-> signature, body |-> body, pc |-> pc,
   readOk |-> FALSE, status |-> 0, parsed |-> FALSE, stored |-> FALSE,
   decoded |-> [events |-> <<>>, destination |-> ""], seen |-> <<>>,
   hasLine |-> FALSE, line |-> LineHelper(<<>>), result |-> ""]

\* onRequest up to its first await: only a POST with a signature header is
\* looked at.
onRequestStart(method, signature, body) ==
  IF method # "POST" THEN NewRequest(method, signature, body, "hooked")
  ELSE IF Falsy(signature) THEN NewRequest(method, signature, body, "hooked")
  ELSE NewRequest(method, signature, body, "reading")

\* parsePayload taking a text that does not parse, and null, for an empty
\* payload.
parsePayloadLenient(body) ==
  [ok |-> TRUE,
   events |-> IF body.json /\ body.hasEvents THEN body.events ELSE <<>>,
   destination |-> IF body.json /\ body.hasDest THEN body.destination ELSE ""]

\* parsePayload failing on a payload without events or without destination.
parsePayloadStrict(body) ==
  IF ~body.json \/ body.shape = "null" \/ ~body.hasEvents \/ ~body.hasDest
  THEN [ok |-> FALSE, events |-> <<>>, destination |-> ""]
  ELSE [ok |-> TRUE, events |-> body.events, destination |-> body.destination]

\* The try block of onRequest: JSON.parse(body), then payload.events ?? []
\* and payload.destination ?? "".  It throws when the text does not parse
\* and when the payload is null (payload.destination of null); every other
\* JSON value goes through, a field it lacks reading as undefined.
parsePayload(body) ==
  IF ~body.json \/ body.shape = "null"
  THEN [ok |-> FALSE, events |-> <<>>, destination |-> ""]
  ELSE [ok |-> TRUE,
        events |-> IF body.hasEvents THEN body.events ELSE <<>>,
        destination |-> IF body.hasDest THEN body.destination ELSE ""]

\* onRequestBody without the return after a failed verification.
onRequestBodyNoReject(st, q, readOk) ==
  IF ~readOk
  THEN [store |-> st, req |-> [q EXCEPT !.pc = "responded", !.status = 400]]
  ELSE LET payload == parsePayload(q.body) IN
       IF ~payload.ok
       THEN [store |-> st,
             req |-> [q EXCEPT !.pc = "responded", !.status = 400,
                               !.readOk = TRUE, !.parsed = TRUE]]
       ELSE [store |-> [events |-> payload.events,
                        destination |-> payload.destination],
             req |-> [q EXCEPT !.pc = "hooked", !.readOk = TRUE,
                               !.parsed = TRUE, !.stored = TRUE,
                               !.decoded = [events |-> payload.events,
                                            destination |-> payload.destination]]]

\* onRequestBody with JSON.parse before validateSignature.
onRequestBodyParseFirst(st, q, readOk) ==
  IF ~readOk
  THEN [store |-> st, req |-> [q EXCEPT !.pc = "responded", !.status = 400]]
  ELSE LET payload == parsePayload(q.body) IN
       IF ~payload.ok
       THEN [store |-> st,
             req |-> [q EXCEPT !.pc = "responded", !.status = 400,
                               !.readOk = TRUE, !.parsed = TRUE]]
       ELSE IF ~validateSignature(q.body, q.sig, channelSecret)
       THEN [store |-> st,
             req |-> [q EXCEPT !.pc = "responded", !.status = 401,
                               !.readOk = TRUE, !.parsed = TRUE]]
       ELSE [store |-> [events |-> payload.events,
                        destination |-> payload.destination],
             req |-> [q EXCEPT !.pc = "hooked", !.readOk = TRUE,
                               !.parsed = TRUE, !.stored = TRUE,
                               !.decoded = [events |-> payload.events,
                                            destination |-> payload.destination]]]

\* onRequestBody emptying the store before it answers 401 or 400.
onRequestBodyResetOnReject(st, q, readOk) ==
  LET empty == [events |-> <<>>, destination |-> ""] IN
  IF ~readOk
  THEN [store |-> empty, req |-> [q EXCEPT !.pc = "responded", !.status = 400]]
  ELSE IF ~validateSignature(q.body, q.sig, channelSecret)
  THEN [store |-> empty,
        req |-> [q EXCEPT !.pc = "responded", !.status = 401, !.readOk = TRUE]]
  ELSE LET payload == parsePayload(q.body) IN
       IF ~payload.ok
       THEN [store |-> empty,
             req |-> [q EXCEPT !.pc = "responded", !.status = 400,
                               !.readOk = TRUE, !.parsed = TRUE]]
       ELSE [store |-> [events |-> payload.events,
                        destination |-> payload.destination],
             req |-> [q EXCEPT !.pc = "hooked", !.readOk = TRUE,
                               !.parsed = TRUE, !.stored = TRUE,
                               !.decoded = [events |-> payload.events,
                                            destination |-> payload.destination]]]

\* onRequest after request.text() has settled.  A read failure answers 400;
\* a signature that does not verify answers 401; a body the try block
\* throws on answers 400; otherwise payload.events ?? [] and
\* payload.destination ?? "" go to the store and the lifecycle goes on.
onRequestBody(st, q, readOk) ==
  IF ~readOk
  THEN [store |-> st, req |-> [q EXCEPT !.pc = "responded", !.status = 400]]
  ELSE IF ~validateSignature(q.body, q.sig, channelSecret)
  THEN [store |-> st,
        req |-> [q EXCEPT !.pc = "responded", !.status = 401, !.readOk = TRUE]]
  ELSE LET payload == parsePayload(q.body) IN
       IF ~payload.ok
       THEN [store |-> st,
             req |-> [q EXCEPT !.pc = "responded", !.status = 400,
                               !.readOk = TRUE, !.parsed = TRUE]]
       ELSE [store |-> [events |-> payload.events,
                        destination |-> payload.destination],
             req |-> [q EXCEPT !.pc = "hooked", !.readOk = TRUE,
                               !.parsed = TRUE, !.stored = TRUE,
                               !.decoded = [events |-> payload.events,
                                            destination |-> payload.destination]]]

\* derive handing the route a helper that already holds a registration.
deriveKeepingRegistry(st, q) ==
  IF st.events = <<>> THEN [q EXCEPT !.hasLine = FALSE, !.seen = st.events]
  ELSE [q EXCEPT !.hasLine = TRUE, !.seen = st.events,
                 !.line = on(LineHelper(st.events), "message:text", "appReply")]

\* derive: a new LineHelper over the events of the store, if there are any.
\* The store is the one .state() made for the plugin: what the last request
\* that wrote it left there.
derive(st, q) ==
  IF st.events = <<>> THEN [q EXCEPT !.hasLine = FALSE, !.seen = st.events]
  ELSE [q EXCEPT !.hasLine = TRUE, !.seen = st.events,
                 !.line = LineHelper(st.events)]

\* The route with the handler of test/app.ts 16-28, which also pushes.
webhookRouteReplyPush(q) ==
  IF ~q.hasLine THEN [q EXCEPT !.pc = "done", !.result = "Not a LINE webhook"]
  ELSE LET L == handle(on(q.line, "message:text", "appReplyPush")) IN
       [q EXCEPT !.pc = "done", !.line = L,
                 !.result = IF L.hcalls[1].state = "fulfilled" THEN "OK" ELSE "error"]

\* The route of test/app.ts 51-66: without line, "Not a LINE webhook";
\* otherwise register the message:text handler, await line.handle(), "OK".
\* The handler returns at once, so handle() settles in the same macrotask.
webhookRoute(q) ==
  IF ~q.hasLine THEN [q EXCEPT !.pc = "done", !.result = "Not a LINE webhook"]
  ELSE LET L == handle(on(q.line, "message:text", "appReply")) IN
       [q EXCEPT !.pc = "done", !.line = L,
                 !.result = IF L.hcalls[1].state = "fulfilled" THEN "OK" ELSE "error"]

\* What follows onRequest for a request it let through: derive, then the
\* route handler.  A request onRequest answered goes no further, and the
\* application has no route but post("/webhook").
lifecycle(st, q) ==
  IF q.pc # "hooked" THEN q
  ELSE IF q.method # "POST" THEN [q EXCEPT !.pc = "done", !.result = "NOT_FOUND"]
  ELSE webhookRoute(derive(st, q))

-----------------------------------------------------------------------------
(* Actions on the LineHelper under test *)

\* The plugin made from good options, the store as .state() creates it, and
\* no request yet.
InitPlugin ==
  /\ app = linePlugin(MkOptions(Given(channelSecret), Given(channelAccessToken)))
  /\ store = [events |-> <<>>, destination |-> ""]
  /\ reqs = <<>>
  /\ checks = <<>>

On(sel, h) ==
  /\ line' = on(line, sel, h)
  /\ UNCHANGED <<store, reqs, app, checks>>

Handle ==
  /\ line' = handle(line)
  /\ UNCHANGED <<store, reqs, app, checks>>

Settle(t, ok) ==
  /\ line.transport[t].state = "pending"
  /\ line' = TransportSettled(line, t, ok)
  /\ UNCHANGED <<store, reqs, app, checks>>

\* The application calls reply()/push() itself and keeps the promise.
Reply(replyToken, messages) ==
  /\ line' = reply(line, replyToken, messages, 0, TRUE)
  /\ UNCHANGED <<store, reqs, app, checks>>

Push(to, messages) ==
  /\ line' = push(line, to, messages, 0, TRUE)
  /\ UNCHANGED <<store, reqs, app, checks>>

-----------------------------------------------------------------------------
(* Dispatch specification: any on() and handle() calls in any order, with   *)
(* handlers that return at once or throw: which handlers handle() launches, *)
(* and in which order.                                                      *)

DispatchKinds  == {"sync", "throw"}
DispatchKeys   == {"*", "message:text", "message"}
DispatchEvents == { k \in EventKinds : k.userId = UserId }

InitDispatch ==
  /\ \E evs \in Batches(DispatchEvents, MaxEvents) : line = LineHelper(evs)
  /\ InitPlugin

NextDispatch ==
  \/ \E sel \in DispatchKeys, h \in DispatchKinds :
        Len(line.regLog) < MaxReg /\ On(sel, h)
  \/ Len(line.hcalls) < MaxHandle /\ Handle

SpecDispatch == InitDispatch /\ [][NextDispatch]_vars

-----------------------------------------------------------------------------
(* Join specification: the route registers handlers, calls handle() once    *)
(* and awaits it (test/app.ts 57-64); the handlers send, and the transport  *)
(* calls settle one by one, each with success or failure.                   *)

JoinKinds  == {"throw", "appReplyPush", "replyThenPush"}
JoinKeys   == {"*", "message:text"}
JoinEvents == { k \in EventKinds : k.msub # "image" }

\* The number of handlers a handle() call on L would launch if none threw.
RECURSIVE Matched(_, _)
Matched(L, e) ==
  IF e > Len(L.events) THEN 0
  ELSE Len(StepHandlers(L, L.events[e], 1, TRUE).list)
       + Len(StepHandlers(L, L.events[e], 2, TRUE).list)
       + Len(StepHandlers(L, L.events[e], 3, TRUE).list)
       + Matched(L, e + 1)

InitJoin ==
  /\ \E evs \in Batches(JoinEvents, JMaxEvents) : line = LineHelper(evs)
  /\ InitPlugin

NextJoin ==
  \/ \E sel \in JoinKeys, h \in JoinKinds :
        /\ line.hcalls = <<>>
        /\ Len(line.regLog) < JMaxReg
        /\ On(sel, h)
  \/ /\ line.hcalls = <<>>
     /\ Matched(line, 1) <= JMaxInvs
     /\ Handle
  \/ \E t \in 1..Len(line.transport), ok \in BOOLEAN : Settle(t, ok)

SpecJoin == InitJoin /\ [][NextJoin]_vars

\* The join specification with a transport whose calls all settle: a client
\* call that is pending is answered or fails in the end, so every handler
\* that awaits its sends settles.
InitJoinFair ==
  /\ \E evs \in Batches(JoinEvents, LMaxEvents) : line = LineHelper(evs)
  /\ InitPlugin

NextJoinFair ==
  \/ \E sel \in JoinKeys, h \in JoinKinds :
        /\ line.hcalls = <<>>
        /\ Len(line.regLog) < LMaxReg
        /\ On(sel, h)
  \/ /\ line.hcalls = <<>>
     /\ Matched(line, 1) <= LMaxInvs
     /\ Handle
  \/ \E t \in 1..Len(line.transport), ok \in BOOLEAN : Settle(t, ok)

SpecJoinFair ==
  /\ InitJoinFair /\ [][NextJoinFair]_vars
  /\ WF_vars(\E t \in 1..Len(line.transport), ok \in BOOLEAN : Settle(t, ok))

-----------------------------------------------------------------------------
(* Repeated-dispatch specification: the application registers handlers and  *)
(* calls handle() more than once on the same LineHelper, in any order.  The *)
(* handlers return at once; one of them replies to the event.               *)

RerunKinds  == {"sync", "appReply"}
RerunKeys   == {"*", "message:text"}
RerunEvents == { k \in EventKinds : k.userId = UserId /\ k.msub # "image" }

InitRerun ==
  /\ \E evs \in Batches(RerunEvents, RMaxEvents) : line = LineHelper(evs)
  /\ InitPlugin

NextRerun ==
  \/ \E sel \in RerunKeys, h \in RerunKinds :
        Len(line.regLog) < RMaxReg /\ On(sel, h)
  \/ Len(line.hcalls) < RMaxHandle /\ Handle

SpecRerun == InitRerun /\ [][NextRerun]_vars

-----------------------------------------------------------------------------
(* Registering-handlers specification: the handlers the application         *)
(* registers may themselves call on() while handle() runs them.  A call     *)
(* whose loop runs for ever never returns, and nothing else runs after it.  *)

PhaseKinds  == {"sync", "onWild", "onText", "onSelf"}
PhaseKeys   == {"*", "message:text", "message"}
PhaseEvents == { k \in EventKinds : k.userId = UserId /\ k.msub # "image" }

Looping == \E c \in 1..Len(line.hcalls) : line.hcalls[c].state = "looping"

InitPhases ==
  /\ \E evs \in Batches(PhaseEvents, PMaxEvents) : line = LineHelper(evs)
  /\ InitPlugin

NextPhases ==
  \/ \E sel \in PhaseKeys, h \in PhaseKinds :
        ~Looping /\ line.hcalls = <<>> /\ Len(line.regLog) < PMaxReg /\ On(sel, h)
  \/ ~Looping /\ Len(line.hcalls) < MaxHandle /\ Handle

SpecPhases == InitPhases /\ [][NextPhases]_vars

\* The same with the event loop running whatever can run.
SpecPhasesFair == SpecPhases /\ WF_vars(NextPhases)

-----------------------------------------------------------------------------
(* Event-batch specification: on(), handle(), reply() and push() in any     *)
(* order on one LineHelper, the client calls settling in between, and       *)
(* getEvents() called at any moment.  checks begins with the batch given to *)
(* the constructor and then holds what each getEvents() call returned.      *)

FrameKinds  == {"appReply"}
FrameKeys   == {"*", "message:text"}
FrameEvents == { k \in EventKinds : k.userId = UserId /\ k.msub # "image" }

\* The calls made so far by the application.
FrameOps ==
  Len(line.regLog) + Len(line.hcalls)
    + Cardinality({ s \in 1..Len(line.sends) : line.sends[s].by = 0 })

InitFrame ==
  /\ \E evs \in Batches(FrameEvents, FMaxEvents) :
        /\ line = LineHelper(evs)
        /\ checks = << [op |-> "new", events |-> evs] >>
  /\ app = linePlugin(MkOptions(Given(channelSecret), Given(channelAccessToken)))
  /\ store = [events |-> <<>>, destination |-> ""]
  /\ reqs = <<>>

GetEvents ==
  /\ Len(checks) <= FMaxGets
  /\ checks' = Append(checks, [op |-> "getEvents", events |-> getEvents(line)])
  /\ UNCHANGED <<line, store, reqs, app>>

NextFrame ==
  \/ \E sel \in FrameKeys, h \in FrameKinds : FrameOps < FMaxOps /\ On(sel, h)
  \/ FrameOps < FMaxOps /\ Handle
  \/ FrameOps < FMaxOps /\ Reply(1, One("echo"))
  \/ FrameOps < FMaxOps /\ Push(UserId, One("pushed"))
  \/ \E t \in 1..Len(line.transport), ok \in BOOLEAN : Settle(t, ok)
  \/ GetEvents

SpecFrame == InitFrame /\ [][NextFrame]_vars

-----------------------------------------------------------------------------
(* Messenger specification: the application calls reply() and push() with a *)
(* single message or a list, and the client calls settle.                   *)

MsgArgs ==
  { One(m) : m \in Messages } \cup
  { List(ms) : ms \in UNION { [1..n -> Messages] : n \in 0..2 } }

InitMessenger ==
  /\ line = LineHelper(<<>>)
  /\ InitPlugin

NextMessenger ==
  \/ \E tok \in 1..2, m \in MsgArgs : Len(line.sends) < MaxSend /\ Reply(tok, m)
  \/ \E m \in MsgArgs : Len(line.sends) < MaxSend /\ Push(UserId, m)
  \/ \E t \in 1..Len(line.transport), ok \in BOOLEAN : Settle(t, ok)

SpecMessenger == InitMessenger /\ [][NextMessenger]_vars

-----------------------------------------------------------------------------
(* Intake specification: requests arrive and each runs onRequest; those     *)
(* that onRequest lets through go on to derive and the route at once.       *)
(* Requests interleave at the await of request.text().                      *)

SigHeaders(body) ==
  {NoHeader, EmptyHeader, createHmac(channelSecret, body),
   createHmac(OtherSecret, body)} \cup
  { createHmac(channelSecret, b) : b \in {c \in Bodies : c.id = 1} }

RequestInputs ==
  UNION { { <<"POST", sg, b>> : sg \in SigHeaders(b) } : b \in Bodies }
  \cup { <<"GET", NoHeader, b>> : b \in {c \in Bodies : c.id = 3} }

InitIntake ==
  /\ line = LineHelper(<<>>)
  /\ InitPlugin

\* A request arrives at the plugin and onRequest runs up to its await, or
\* returns; in that case derive and the route follow.
Arrive(method, signature, body) ==
  /\ app.made
  /\ Len(reqs) < MaxReq
  /\ reqs' = Append(reqs, lifecycle(store, onRequestStart(method, signature, body)))
  /\ UNCHANGED <<line, store, app, checks>>

\* request.text() of request r settles and onRequest finishes; if it lets
\* the request through, derive and the route follow.
BodyRead(r, readOk) ==
  /\ reqs[r].pc = "reading"
  /\ LET out == onRequestBody(store, reqs[r], readOk) IN
       /\ store' = out.store
       /\ reqs' = [reqs EXCEPT ![r] = lifecycle(out.store, out.req)]
  /\ UNCHANGED <<line, app, checks>>

NextIntake ==
  \/ \E i \in RequestInputs : Arrive(i[1], i[2], i[3])
  \/ \E r \in 1..Len(reqs), readOk \in BOOLEAN : BodyRead(r, readOk)

SpecIntake == InitIntake /\ [][NextIntake]_vars

-----------------------------------------------------------------------------
(* Verification specification: validateSignature applied to bodies,         *)
(* signatures and secrets of small sets.                                    *)

Secrets        == {channelSecret, OtherSecret}
VerifyBodies   == { b \in Bodies : b.id \in 1..3 }
\* The strings handed in as signature: the digests of the bodies under the
\* secrets, and the empty string.
SignatureTexts ==
  { createHmac(s, b) : s \in Secrets, b \in VerifyBodies } \cup {EmptyHeader}

InitVerify ==
  /\ line = LineHelper(<<>>)
  /\ InitPlugin

Verify(body, signature, secret) ==
  /\ Len(checks) < MaxChecks
  /\ checks' = Append(checks, [body |-> body, signature |-> signature,
                                secret |-> secret,
                                result |-> validateSignature(body, signature, secret)])
  /\ UNCHANGED <<line, store, reqs, app>>

NextVerify ==
  \E b \in VerifyBodies, sg \in SignatureTexts, s \in Secrets : Verify(b, sg, s)

SpecVerify == InitVerify /\ [][NextVerify]_vars

-----------------------------------------------------------------------------
(* Construction specification: the application calls line(options) once,    *)
(* with each option left out, empty or good; requests reach the plugin only *)
(* if the call made one.                                                    *)

OptionValues(good) == {Absent, Given(""), Given(good)}

OptionSets ==
  { MkOptions(s, t) : s \in OptionValues(channelSecret),
                      t \in OptionValues(channelAccessToken) }

\* line() has not been called: there is no plugin, and no store that a
\* request could reach.
InitConstruct ==
  /\ line = LineHelper(<<>>)
  /\ app = NoApp
  /\ store = [events |-> <<>>, destination |-> ""]
  /\ reqs = <<>>
  /\ checks = <<>>

\* new Elysia().use(line(options))
Construct(options) ==
  /\ ~app.called
  /\ app' = linePlugin(options)
  /\ UNCHANGED <<line, store, reqs, checks>>

NextConstruct ==
  \/ \E o \in OptionSets : Construct(o)
  \/ \E i \in RequestInputs : Arrive(i[1], i[2], i[3])
  \/ \E r \in 1..Len(reqs), readOk \in BOOLEAN : BodyRead(r, readOk)

SpecConstruct == InitConstruct /\ [][NextConstruct]_vars

-----------------------------------------------------------------------------
(* Claims about dispatch (SpecDispatch) *)

Invs == 1..Len(line.invs)
Calls == 1..Len(line.hcalls)
Events == 1..Len(line.events)

\* The keys an event matches: the wildcard, its type and, for a message
\* event that carries a message, message:<subtype>.
MatchKeys(event) ==
  {"*", event.type} \cup
  (IF event.type = "message" /\ event.msub # "none"
   THEN {SubtypeKey(event.msub)} ELSE {})

\* The place of a key in the launch order of one event.
Rank(sel) ==
  CASE sel = "*" -> 1
    [] sel \in {"message:text", "message:image"} -> 2
    [] OTHER -> 3

LaunchedBefore(a, b) ==
  \/ a.call < b.call
  \/ a.call = b.call /\ a.ev < b.ev
  \/ a.call = b.call /\ a.ev = b.ev /\ Rank(a.sel) < Rank(b.sel)
  \/ a.call = b.call /\ a.ev = b.ev /\ a.sel = b.sel /\ a.pos < b.pos

\* C2: handle() launches in a deterministic order: the launch sequence is
\* sorted by (event position, wildcard < message:<subtype> < bare type,
\* registration position), so every handler of event i is launched before
\* any handler of event i+1; a message:<subtype> handler is launched only
\* for a message event carrying that subtype, a bare-type handler only for
\* an event of that type.
C2_LaunchOrder ==
  /\ \A v, w \in Invs : v < w => LaunchedBefore(line.invs[v], line.invs[w])
  /\ \A v \in Invs : line.invs[v].sel \in MatchKeys(line.events[line.invs[v].ev])

C2_Witness ==
  /\ Len(line.events) = 2
  /\ Len(line.invs) = 6
  /\ [v \in 1..6 |-> line.invs[v].sel] =
       <<"*", "message:text", "message", "*", "message:text", "message">>
  /\ [v \in 1..6 |-> line.invs[v].ev] = <<1, 1, 1, 2, 2, 2>>

\* The on() calls for key k among the first n, in order.
RegisteredAt(n, k) ==
  SelectSeq(SubSeq(line.regLog, 1, n), LAMBDA r : r.sel = k)

\* The invocations of call c for event e through key k, in launch order.
InvsOf(c, e, k) ==
  SelectSeq(line.invs, LAMBDA a : a.call = c /\ a.ev = e /\ a.sel = k)

Unmatched(c, e) ==
  \A k \in MatchKeys(line.events[e]) : RegisteredAt(line.hcalls[c].regs, k) = <<>>

\* C7: an event that matches no key registered when handle() is called (no
\* wildcard, no bare type, no message:<subtype> handler) gets no handler
\* invocation, and handle() on a batch of such events fulfils without error;
\* a follow event is never given to a message handler.
C7_NoMatchNoInvocation ==
  /\ \A c \in Calls, e \in Events :
        Unmatched(c, e) => InvsOf(c, e, "*") = <<>> /\
                           \A v \in Invs : ~(line.invs[v].call = c /\ line.invs[v].ev = e)
  /\ \A c \in Calls :
        (\A e \in Events : Unmatched(c, e)) =>
           line.hcalls[c].state = "fulfilled" /\ line.hcalls[c].error = NoError
  /\ \A v \in Invs :
        line.events[line.invs[v].ev].type = "follow" =>
           line.invs[v].sel \in {"*", "follow"}

C7_Witness ==
  /\ Len(line.events) = 1 /\ line.events[1].type = "follow"
  /\ Len(line.hcalls) = 1
  /\ RegisteredAt(line.hcalls[1].regs, "message:text") # <<>>
  /\ line.invs = <<>>
  /\ line.hcalls[1].state = "fulfilled"

Kinds(seq) == [i \in 1..Len(seq) |-> seq[i].h]
KindsLaunched(seq) == [i \in 1..Len(seq) |-> seq[i].kind]

\* The list of each key is the handlers registered under it, in registration
\* order, duplicates included.
RegistrationOrderKept ==
  \A k \in Selectors : line.handlers[k] = Kinds(RegisteredAt(Len(line.regLog), k))

\* C8: after any on() calls the list of each key is the handlers registered
\* under it in registration order, duplicates included, and handle() invokes,
\* for each event and each key the event matches, exactly that list in that
\* order: a handler registered n times is invoked n times per matching event.
C8_RegisteredOncePerRegistration ==
  /\ RegistrationOrderKept
  /\ \A c \in Calls, e \in Events : \A k \in MatchKeys(line.events[e]) :
        KindsLaunched(InvsOf(c, e, k)) = Kinds(RegisteredAt(line.hcalls[c].regs, k))

\* A handle() call whose loop an exception ended.
Aborted(c) == \E v \in Invs : line.invs[v].call = c /\ line.invs[v].state = "threw"

\* What holds of C8 in the code: the registration order is kept, every call
\* launches a prefix of each list, and the whole list unless a handler threw
\* synchronously in that call.
C8_ExceptAfterThrow ==
  /\ RegistrationOrderKept
  /\ \A c \in Calls, e \in Events : \A k \in MatchKeys(line.events[e]) :
        LET got  == KindsLaunched(InvsOf(c, e, k))
            want == Kinds(RegisteredAt(line.hcalls[c].regs, k))
        IN /\ Len(got) <= Len(want)
           /\ got = SubSeq(want, 1, Len(got))
           /\ ~Aborted(c) => got = want

-----------------------------------------------------------------------------
(* Claims about the join of handle() (SpecJoin) *)

Sends == 1..Len(line.sends)
Transport == 1..Len(line.transport)

Failed(v) == line.invs[v].state \in {"rejected", "threw"}

\* C3: the promise of handle() is fulfilled exactly when every handler the
\* call launched has completed without failure: it is never fulfilled while
\* one is pending, and never rejected while none has failed.
C3_FulfilsAfterAll ==
  \A c \in Calls :
    /\ line.hcalls[c].state = "fulfilled" <=>
          \A v \in PromisesOf(line, c) : line.invs[v].state = "fulfilled"
    /\ line.hcalls[c].state = "rejected" =>
          \E v \in PromisesOf(line, c) : Failed(v)

C3_Witness ==
  /\ Len(line.hcalls) = 1 /\ line.hcalls[1].state = "fulfilled"
  /\ Len(line.invs) >= 2
  /\ \A v \in Invs : line.invs[v].kind = "replyThenPush"
  /\ \E s \in Sends : line.sends[s].op = "push" /\ line.sends[s].state = "fulfilled"

SendsBy(v, op) == { s \in Sends : line.sends[s].by = v /\ line.sends[s].op = op }

\* C5: no handler is cancelled, whatever the state of handle(): a pending
\* handler awaits a send of its own whose client call is in flight, so it
\* goes on when that call settles; a handler that has completed has made all
\* its reply/push calls.
C5_NoCancellation ==
  \A v \in Invs :
    LET a     == line.invs[v]
        event == line.events[a.ev]
    IN /\ a.state = "pending" =>
            /\ a.wait \in Sends
            /\ line.sends[a.wait].by = v
            /\ line.sends[a.wait].state = "pending"
            /\ \E t \in Transport : /\ line.transport[t].send = a.wait
                                      /\ line.transport[t].state = "pending"
       /\ (a.kind = "replyThenPush" /\ a.state = "fulfilled") =>
            /\ \E s \in SendsBy(v, "reply") : line.sends[s].state = "fulfilled"
            /\ event.userId # NoUser =>
                 \E s \in SendsBy(v, "push") : line.sends[s].state = "fulfilled"
       /\ a.kind = "appReplyPush" =>
            /\ Cardinality(SendsBy(v, "reply")) = 1
            /\ Cardinality(SendsBy(v, "push")) = IF event.userId # NoUser THEN 1 ELSE 0

C5_Witness ==
  \E c \in Calls : \E v, w \in PromisesOf(line, c) :
    /\ v # w
    /\ line.hcalls[c].state = "rejected"
    /\ line.invs[v].state = "rejected"
    /\ line.hcalls[c].error = line.invs[v].error
    /\ line.invs[w].kind = "replyThenPush" /\ line.invs[w].state = "fulfilled"
    /\ \E s \in SendsBy(w, "push") :
          \E t \in Transport : /\ line.transport[t].send = s
                                /\ t > line.hcalls[c].error.id

\* C6 as stated: a reply/push of a handler that the transport rejects always
\* rejects the handle() call that launched the handler.
C6_AnyDeliveryFailureRejects ==
  \A t \in Transport :
    LET s == line.transport[t].send
        v == line.sends[s].by
    IN (line.transport[t].state = "failed" /\ v # 0) =>
          line.hcalls[line.invs[v].call].state = "rejected"

\* C6 amended: a reply/push whose promise the handler awaits or returns, and
\* that the transport rejects, rejects the handle() call that launched the
\* handler; a send whose promise the handler drops (test/app.ts) does not
\* reach handle().
C6_AwaitedDeliveryFailureRejects ==
  \A t \in Transport :
    LET s == line.transport[t].send
        v == line.sends[s].by
    IN (line.transport[t].state = "failed" /\ v # 0 /\ line.sends[s].awaited) =>
          line.hcalls[line.invs[v].call].state = "rejected"

C6_Witness ==
  \E t \in Transport :
    LET s == line.transport[t].send
        v == line.sends[s].by
    IN /\ line.transport[t].state = "failed" /\ line.transport[t].op = "push"
       /\ v # 0 /\ line.sends[s].awaited
       /\ line.hcalls[line.invs[v].call].state = "rejected"
       /\ line.hcalls[line.invs[v].call].error = TransportError(t)

-----------------------------------------------------------------------------
(* Claims about reply() and push() (SpecMessenger) *)

\* What the client is called with.
Request(t) ==
  [op |-> line.transport[t].op, to |-> line.transport[t].to,
   messages |-> line.transport[t].messages]

\* C9: reply(token, m) and reply(token, [m]) make the same client call
\* (replyToken token, messages [m]), likewise push(to, m) and push(to, [m]);
\* a list is forwarded with the same messages in the same order.
C9_SingleIsOneElementList ==
  /\ \A t \in Transport :
        LET send == line.sends[line.transport[t].send] IN
        /\ line.transport[t].op = send.op
        /\ line.transport[t].to = send.to
        /\ send.arg.tag = "one"  => line.transport[t].messages = <<send.arg.val>>
        /\ send.arg.tag = "list" => line.transport[t].messages = send.arg.val
  /\ \A t, u \in Transport :
        LET a == line.sends[line.transport[t].send]
            b == line.sends[line.transport[u].send]
        IN (a.op = b.op /\ a.to = b.to /\ a.arg.tag = "one" /\ b.arg.tag = "list"
              /\ b.arg.val = <<a.arg.val>>) => Request(t) = Request(u)

C9_Witness ==
  \E t, u \in Transport :
    /\ line.sends[line.transport[t].send].arg = One("echo")
    /\ line.sends[line.transport[u].send].arg.tag = "list"
    /\ Request(u).messages = <<"echo">>
    /\ Request(t) = Request(u)

\* The client calls made for send s.
CallsOf(s) == { t \in Transport : line.transport[t].send = s }

\* C10: every reply()/push() makes exactly one client call, also after that
\* call has failed (no second attempt); its promise settles as the call
\* does, and a failed call rejects it with the failure of that call.
C10_OneCallFailurePropagates ==
  \A s \in Sends :
    /\ Cardinality(CallsOf(s)) = 1
    /\ \A t \in CallsOf(s) :
          /\ line.transport[t].state = "pending" => line.sends[s].state = "pending"
          /\ line.transport[t].state = "ok" => line.sends[s].state = "fulfilled"
          /\ line.transport[t].state = "failed" =>
                /\ line.sends[s].state = "rejected"
                /\ line.sends[s].error = TransportError(t)

C10_Witness ==
  /\ \E s \in Sends : line.sends[s].op = "reply" /\ line.sends[s].state = "rejected"
  /\ \E s \in Sends : line.sends[s].op = "push" /\ line.sends[s].state = "rejected"
  /\ Len(line.transport) = 2

-----------------------------------------------------------------------------
(* Claims about the intake (SpecIntake) *)

Reqs == 1..Len(reqs)

\* A POST whose x-line-signature header is there and is not the HMAC of its
\* body under the channel secret.
Mismatch(q) ==
  /\ q.method = "POST"
  /\ q.sig # NoHeader
  /\ q.sig # createHmac(channelSecret, q.body)

\* onRequest has finished for q, and request.text() did not fail.
Finished(q) ==
  /\ q.pc # "reading"
  /\ ~(q.pc = "responded" /\ ~q.readOk)

Rejected401(q) ==
  /\ q.pc = "responded" /\ q.status = 401
  /\ ~q.hasLine /\ q.line.invs = <<>> /\ q.line.hcalls = <<>>

\* A step of request r (its arrival included) leaves the store as it was.
KeepsStore(r) ==
  (r \in 1..Len(reqs') /\ (r > Len(reqs) \/ reqs'[r] # reqs[r])) => store' = store

-----------------------------------------------------------------------------
(* Claims about requests from end to end (SpecIntake) *)

\* A POST whose x-line-signature header is the HMAC of its body under the
\* channel secret; with its body read, the body is verified.
Signed(q)   == q.method = "POST" /\ q.sig = createHmac(channelSecret, q.body)
Verified(q) == Signed(q) /\ q.readOk

\* The lifecycle of q has ended.
Ended(q) == q.pc \in {"responded", "done"}

\* The body of q carries one event, a text message.
OneTextEvent(q) ==
  /\ q.body.shape = "envelope" /\ Len(q.body.events) = 1
  /\ q.body.events[1].type = "message" /\ q.body.events[1].msub = "text"

\* C11: a correctly signed POST with one text-message event, handled by the
\* route that registers one message:text handler replying to
\* event.replyToken and awaits handle(), ends with exactly one handler
\* invocation and exactly one client call: a reply with the token of that
\* event and the one message of the handler; there is no push.
C11_EndToEndOneReply ==
  \A r \in Reqs :
    LET q == reqs[r] IN
    (Verified(q) /\ Ended(q) /\ OneTextEvent(q)) =>
      /\ q.pc = "done" /\ q.result = "OK" /\ q.status = 0
      /\ Len(q.line.invs) = 1
      /\ Len(q.line.transport) = 1
      /\ q.line.transport[1].op = "reply"
      /\ q.line.transport[1].to = q.body.events[1].replyToken
      /\ q.line.transport[1].messages = <<"echo">>

C11_Witness ==
  /\ Len(reqs) = 2
  /\ Verified(reqs[1]) /\ Len(reqs[1].body.events) = 2 /\ reqs[1].pc = "done"
  /\ Verified(reqs[2]) /\ OneTextEvent(reqs[2]) /\ reqs[2].result = "OK"
  /\ Len(reqs[2].line.transport) = 1

\* C12 as stated: a POST without x-line-signature header gets no error
\* status, its route gets no facade and answers "Not a LINE webhook", and no
\* handler is invoked for it, whatever was processed before.
C12_NoHeaderIgnored ==
  \A r \in Reqs :
    LET q == reqs[r] IN
    (q.method = "POST" /\ q.sig = NoHeader /\ Ended(q)) =>
      /\ q.status = 0
      /\ ~q.hasLine /\ q.result = "Not a LINE webhook"
      /\ q.line.invs = <<>>

\* C13 as stated: the facade of a request carries the events decoded from
\* the verified body of that request, never those of another request.
C13_OwnEventsOnly ==
  \A r \in Reqs :
    LET q == reqs[r] IN
    q.hasLine => (Verified(q) /\ q.stored /\ q.line.events = q.decoded.events)

\* The registrations the route makes on the facade it is handed.
RouteRegistrations == <<[sel |-> "message:text", h |-> "appReply"]>>

\* The events of a sequence that a message:text handler is invoked for.
TextEventsOf(events) ==
  { e \in 1..Len(events) : events[e].type = "message" /\ events[e].msub = "text" }

\* C14: the registry of every request is fresh: the facade a request ends
\* with holds the registrations of its own route and nothing else, and the
\* handlers invoked for the request are those, once per matching event.
C14_FreshRegistry ==
  \A r \in Reqs :
    LET q == reqs[r] IN
    (q.pc = "done" /\ q.hasLine) =>
      /\ q.line.regLog = RouteRegistrations
      /\ \A k \in Selectors :
            q.line.handlers[k] = IF k = "message:text" THEN <<"appReply">> ELSE <<>>
      /\ \A v \in 1..Len(q.line.invs) :
            q.line.invs[v].sel = "message:text" /\ q.line.invs[v].pos = 1
      /\ Len(q.line.invs) = Cardinality(TextEventsOf(q.line.events))

C14_Witness ==
  /\ Len(reqs) = 2
  /\ \A r \in Reqs : reqs[r].pc = "done" /\ reqs[r].hasLine /\ Len(reqs[r].line.invs) = 1
  /\ reqs[1].body # reqs[2].body

\* C15 as stated: a request has a facade if and only if its verified body
\* decoded to at least one event, and the facade is over those events.
C15_FacadeIffEvents ==
  \A r \in Reqs :
    LET q == reqs[r] IN
    (q.pc = "done" /\ q.method = "POST") =>
      /\ q.hasLine <=> (Verified(q) /\ q.stored /\ q.decoded.events # <<>>)
      /\ q.hasLine => q.line.events = q.decoded.events

\* What holds of the requests that wrote the store themselves: such a
\* request has a facade exactly if it decoded an event, over its own events.
C15_OfVerifiedRequests ==
  \A r \in Reqs :
    LET q == reqs[r] IN
    (q.pc = "done" /\ q.stored) =>
      /\ q.hasLine <=> q.decoded.events # <<>>
      /\ q.hasLine => q.line.events = q.decoded.events

\* C16: JSON.parse is called and the store written only by a request whose
\* body was read and whose signature header verified against that body; a
\* step that changes the store is the step of such a request and leaves
\* there what that request decoded.
C16_ParseAfterVerify ==
  /\ [](\A r \in Reqs :
          (reqs[r].parsed \/ reqs[r].stored) =>
             (reqs[r].readOk
              /\ validateSignature(reqs[r].body, reqs[r].sig, channelSecret)))
  /\ [][store' # store =>
          \E r \in 1..Len(reqs) :
            /\ reqs[r].pc = "reading" /\ reqs'[r].stored
            /\ validateSignature(reqs[r].body, reqs[r].sig, channelSecret)
            /\ store' = reqs'[r].decoded]_vars

C16_Witness ==
  \E r, u \in Reqs :
    /\ reqs[r].parsed /\ reqs[r].status = 400
    /\ reqs[u].stored /\ store = reqs[u].decoded /\ store.events # <<>>

\* The body of q could not be read.
ReadFailed(q) ==
  q.method = "POST" /\ ~Falsy(q.sig) /\ Ended(q) /\ ~q.readOk

\* C17: a request whose body could not be read, and one whose correctly
\* signed body is not valid JSON, is answered 400, gets no facade and no
\* handler invocation, and its steps leave the stored events and
\* destination as they were.
C17_ReadOrParseFailure400 ==
  /\ [](\A r \in Reqs :
          LET q == reqs[r] IN
          (ReadFailed(q) \/ (Verified(q) /\ Ended(q) /\ ~q.body.json)) =>
             /\ q.pc = "responded" /\ q.status = 400
             /\ ~q.stored /\ ~q.hasLine
             /\ q.line.invs = <<>> /\ q.line.hcalls = <<>>)
  /\ [][\A r \in 1..Len(reqs) :
          (reqs[r].pc = "reading" /\ reqs'[r].pc # "reading"
             /\ (~reqs'[r].readOk \/ ~reqs[r].body.json)) => store' = store]_vars

C17_Witness ==
  \E r, u \in Reqs :
    /\ ReadFailed(reqs[r]) /\ reqs[r].status = 400
    /\ Verified(reqs[u]) /\ ~reqs[u].body.json /\ reqs[u].status = 400

\* C18 as stated: a correctly signed body that is valid JSON but no
\* envelope is answered with a client error and never becomes the event
\* batch of a facade.
C18_MalformedEnvelopeRejected ==
  \A r \in Reqs :
    LET q == reqs[r] IN
    (Verified(q) /\ Ended(q) /\ q.body.shape \in {"null", "scalar", "badEvents"}) =>
      /\ q.pc = "responded" /\ q.status = 400
      /\ ~q.hasLine

\* C19: a correctly signed envelope decodes without error; without events
\* it decodes to the empty sequence, without destination to "".
C19_AbsentFieldsDecode ==
  \A r \in Reqs :
    LET q == reqs[r] IN
    (Verified(q) /\ Ended(q) /\ q.body.shape = "envelope") =>
      /\ q.pc = "done" /\ q.status = 0 /\ q.parsed /\ q.stored
      /\ q.decoded.events = IF q.body.hasEvents THEN q.body.events ELSE <<>>
      /\ q.decoded.destination = IF q.body.hasDest THEN q.body.destination ELSE ""

C19_Witness ==
  \E r \in Reqs :
    /\ Verified(reqs[r]) /\ ~reqs[r].body.hasEvents /\ ~reqs[r].body.hasDest
    /\ reqs[r].body.shape = "envelope"
    /\ reqs[r].pc = "done" /\ reqs[r].status = 0
    /\ reqs[r].decoded = [events |-> <<>>, destination |-> ""]
    /\ store = reqs[r].decoded

-----------------------------------------------------------------------------
(* Claims about construction (SpecConstruct) *)

-----------------------------------------------------------------------------
(* Claims about validateSignature (SpecVerify) *)

\* C21: validateSignature accepts the digest of the body under the secret,
\* rejects the digest of every other body under that secret, and never
\* accepts the empty signature.
C21_SignatureRoundTrip ==
  \A c \in 1..Len(checks) :
    LET k == checks[c] IN
    /\ k.signature = createHmac(k.secret, k.body) => k.result
    /\ \A b \in VerifyBodies :
          (b # k.body /\ k.signature = createHmac(k.secret, b)) => ~k.result
    /\ k.signature = EmptyHeader => ~k.result

C21_Witness ==
  \E c, d \in 1..Len(checks) :
    /\ checks[c].signature = createHmac(checks[c].secret, checks[c].body)
    /\ checks[c].result
    /\ checks[d].body # checks[c].body /\ checks[d].secret = checks[c].secret
    /\ checks[d].signature = checks[c].signature /\ ~checks[d].result

-----------------------------------------------------------------------------
(* Claims about the number of invocations (SpecDispatch) *)

\* The invocations made by handle() call c.
LaunchedBy(c) == { v \in Invs : line.invs[v].call = c }

\* The handlers the events of the batch match, among those registered when
\* handle() call c began: one for each event, key the event matches, and
\* registration under that key.
MatchedBy(c) ==
  { m \in Events \X Selectors \X (1..Len(line.regLog)) :
      /\ m[2] \in MatchKeys(line.events[m[1]])
      /\ m[3] <= Len(RegisteredAt(line.hcalls[c].regs, m[2])) }

\* C22 as stated: handle() invokes every handler matched by every event of
\* the batch once per registration, also when an earlier handler of the
\* call failed: the number of invocations is the sum over the events of the
\* wildcard, message:<subtype> and bare-type handlers.
C22_AllMatchedInvoked ==
  \A c \in Calls : Cardinality(LaunchedBy(c)) = Cardinality(MatchedBy(c))

\* What holds of C22 in the code: never more invocations than matched
\* handlers, and all of them unless a handler threw synchronously.
C22_UnlessThrown ==
  \A c \in Calls :
    /\ Cardinality(LaunchedBy(c)) <= Cardinality(MatchedBy(c))
    /\ ~Aborted(c) => Cardinality(LaunchedBy(c)) = Cardinality(MatchedBy(c))

-----------------------------------------------------------------------------
(* Claims about launching (SpecJoin) *)

\* C23: handlers are launched without awaiting one another.  Every handler
\* the batch matches has been launched when handle() reaches its await,
\* whatever the state of the handlers launched before it (pending ones
\* included; only an exception thrown in the loop ends the launching), and
\* no invocation is ever added to a call by a later step, such as the
\* settling of an earlier handler.
C23_LaunchedWithoutAwaiting ==
  /\ [](\A c \in Calls :
          ~Aborted(c) => Cardinality(LaunchedBy(c)) = Cardinality(MatchedBy(c)))
  /\ [][Len(line'.invs) # Len(line.invs) =>
          /\ Len(line'.hcalls) = Len(line.hcalls) + 1
          /\ \A v \in 1..Len(line'.invs) :
                v > Len(line.invs) => line'.invs[v].call = Len(line'.hcalls)]_vars

C23_Witness ==
  /\ Len(line.hcalls) = 1 /\ line.hcalls[1].state = "awaiting"
  /\ Len(line.invs) = 3
  /\ line.invs[1].state = "pending" /\ line.invs[2].state = "pending"
  /\ line.invs[3].kind = "replyThenPush"
  /\ \A t \in Transport : line.transport[t].state = "pending"

-----------------------------------------------------------------------------
(* Claims about the error of handle() (SpecJoin) *)

\* The invocations of call c that have failed, in line L.
FailedOf(L, c) ==
  { v \in 1..Len(L.invs) :
      L.invs[v].call = c /\ L.invs[v].state \in {"rejected", "threw"} }

\* C24: the error handle() rejects with is that of one failed handler, the
\* one that failed first: at the step in which the call becomes rejected no
\* handler of the call had failed before and the error is that of a handler
\* failing in this step, and a later failure never replaces it.
C24_FirstFailureIsTheError ==
  /\ [](\A c \in Calls :
          line.hcalls[c].state = "rejected" =>
             \E v \in FailedOf(line, c) : line.hcalls[c].error = line.invs[v].error)
  /\ [][\A c \in 1..Len(line'.hcalls) :
          line'.hcalls[c].state = "rejected" =>
             IF c <= Len(line.hcalls) /\ line.hcalls[c].state = "rejected"
             THEN line'.hcalls[c].error = line.hcalls[c].error
             ELSE /\ FailedOf(line, c) = {}
                  /\ \E v \in FailedOf(line', c) :
                        line'.hcalls[c].error = line'.invs[v].error]_vars

C24_Witness ==
  /\ Len(line.hcalls) = 1 /\ line.hcalls[1].state = "rejected"
  /\ \E v, w \in FailedOf(line, 1) :
        /\ v < w
        /\ line.invs[v].error # line.invs[w].error
        /\ line.hcalls[1].error = line.invs[w].error

-----------------------------------------------------------------------------
(* Claims about termination (SpecJoinFair) *)

\* handle() call c is waiting at its await.
Awaiting(c) == c \in Calls /\ line.hcalls[c].state = "awaiting"

\* handle() call c has settled.
Settled(c) == c \in Calls /\ line.hcalls[c].state \in {"fulfilled", "rejected"}

\* C25 for handlers that register nothing while they run: when every handler
\* launched by a handle() call settles in the end (the transport answers
\* every call), the handle() call settles in the end: a call that is waiting
\* at its await is later fulfilled or rejected, and a call that launched
\* nothing or whose loop threw is settled at once.
C25_HandleSettles ==
  /\ Awaiting(1) ~> Settled(1)
  /\ [](\A c \in Calls :
          (\A v \in LaunchedBy(c) : line.invs[v].state # "pending") => Settled(c))

C25_Witness ==
  /\ Settled(1) /\ line.hcalls[1].state = "fulfilled"
  /\ \E v \in LaunchedBy(1) :
        /\ line.invs[v].kind = "replyThenPush" /\ line.invs[v].state = "fulfilled"
        /\ Cardinality(SendsBy(v, "push")) = 1

-----------------------------------------------------------------------------
(* Claims about a second handle() (SpecRerun) *)

\* The replies sent for event e, and the invocations for event e of the
\* handler that replies.
RepliesFor(e) ==
  { s \in Sends : line.sends[s].op = "reply"
                  /\ line.sends[s].to = line.events[e].replyToken }
ReplyingInvs(e) ==
  { v \in Invs : line.invs[v].ev = e /\ line.invs[v].kind = "appReply" }

\* C26: every handle() call on a LineHelper, the second like the first, runs
\* the matching over the events of the instance: for every event and every
\* key the event matches it invokes the handlers registered under the key
\* when the call began, whatever earlier calls have done, so an event is
\* processed once per call (a handler that replies sends its reply once per
\* call).
C26_SecondHandleRunsAgain ==
  /\ \A c \in Calls, e \in Events : \A k \in MatchKeys(line.events[e]) :
        Len(InvsOf(c, e, k)) = Len(RegisteredAt(line.hcalls[c].regs, k))
  /\ \A c \in Calls : line.hcalls[c].state = "fulfilled"
  /\ \A e \in Events : Cardinality(RepliesFor(e)) = Cardinality(ReplyingInvs(e))

C26_Witness ==
  /\ Len(line.hcalls) = 2 /\ Len(line.events) = 1
  /\ line.hcalls[1].regs = 1 /\ line.hcalls[2].regs = 1
  /\ Len(InvsOf(1, 1, "message:text")) = 1 /\ Len(InvsOf(2, 1, "message:text")) = 1
  /\ Cardinality(RepliesFor(1)) = 2

-----------------------------------------------------------------------------
(* Claims about handlers that register handlers (SpecPhases) *)

\* C27: the handlers a handle() call runs are those registered before the
\* call began: for every event and every key the event matches, the call
\* invokes as many handlers as the key had when the call began, whatever the
\* handlers register meanwhile; and the call does not loop.
C27_DispatchSeesOnlyEarlierRegistrations ==
  \A c \in Calls :
    /\ line.hcalls[c].state # "looping"
    /\ \A e \in Events : \A k \in MatchKeys(line.events[e]) :
          Len(InvsOf(c, e, k)) = Len(RegisteredAt(line.hcalls[c].regs, k))

\* A wildcard handler that registers a wildcard handler, with one event: the
\* handler it registered was invoked by the same call.
C27_RegisteredHandlerRan ==
  /\ Len(line.hcalls) = 1 /\ Len(line.events) = 1
  /\ line.hcalls[1].regs = 1 /\ line.regLog[1] = [sel |-> "*", h |-> "onWild"]
  /\ Len(InvsOf(1, 1, "*")) = 2

\* A wildcard handler that registers itself: the call never returns.
C27_SelfRegistrationLoops ==
  /\ Len(line.hcalls) = 1 /\ Len(line.events) = 1
  /\ line.hcalls[1].regs = 1 /\ line.regLog[1] = [sel |-> "*", h |-> "onSelf"]
  /\ line.hcalls[1].state = "looping"

\* C25: a handle() call whose launched handlers all settle (here each
\* returns at once) settles in the end, and at no moment is a call whose
\* launched handlers have all settled left unsettled.
C25_EveryCallSettles ==
  /\ (Calls # {}) ~> Settled(1)
  /\ [](\A c \in Calls :
          (\A v \in LaunchedBy(c) : line.invs[v].state = "fulfilled") => Settled(c))

\* What does hold: a call on a registry without a "*" list when it began
\* invokes no wildcard handler, whatever is registered under "*" meanwhile.
C27_NoWildcardListNoWildcardRun ==
  \A c \in Calls :
    RegisteredAt(line.hcalls[c].regs, "*") = <<>> =>
      \A e \in Events : InvsOf(c, e, "*") = <<>>

-----------------------------------------------------------------------------
(* Claims about the event batch (SpecFrame) *)

-----------------------------------------------------------------------------
(* Claims about who writes the store (SpecIntake) *)

\* Request r takes a step (its arrival included).
Acts(r) == r \in 1..Len(reqs') /\ (r > Len(reqs) \/ reqs'[r] # reqs[r])

\* q is a request onRequest ignores (no POST, or no signature header), or
\* one it has refused: the body could not be read, the signature does not
\* verify, or the try block threw on the body.
Ignored(q) == q.method # "POST" \/ Falsy(q.sig)
Refused(q) ==
  /\ ~Ignored(q) /\ q.pc # "reading"
  /\ \/ ~q.readOk
     \/ ~validateSignature(q.body, q.sig, channelSecret)
     \/ ~parsePayload(q.body).ok

\* C29: a step of a request that is ignored or refused, and the arrival of
\* a request that then waits for its body, leave line-events and
\* line-destination as they were; the step of a request that is verified
\* and parsed sets line-events to payload.events ?? [] and line-destination
\* to payload.destination ?? "", both, whatever they held; and the store
\* never holds anything but what it began with or what the last such request
\* wrote.
C29_OnlyVerifiedParsedWrites ==
  /\ [][\A r \in 1..Len(reqs') : Acts(r) =>
          LET q == reqs'[r] IN
          IF Ignored(q) \/ Refused(q) \/ q.pc = "reading"
          THEN store' = store /\ ~q.stored
          ELSE /\ Verified(q) /\ q.parsed /\ q.stored /\ q.status = 0
               /\ store'.events = parsePayload(q.body).events
               /\ store'.destination = parsePayload(q.body).destination]_vars
  /\ [](\/ store = [events |-> <<>>, destination |-> ""]
        \/ \E r \in Reqs : reqs[r].stored /\ store = reqs[r].decoded)

\* One request has written a batch; another was refused with 401 or 400, or
\* ignored while the batch was in the store; the store holds the batch.
C29_Witness ==
  \E r, s \in Reqs :
    /\ reqs[r].stored /\ reqs[r].decoded.events # <<>> /\ store = reqs[r].decoded
    /\ s > r
    /\ \/ Refused(reqs[s])
       \/ Ignored(reqs[s]) /\ reqs[s].seen = store.events

\* A verified request without events and destination has emptied a store
\* that held a batch.
C29_OverwriteWitness ==
  \E r, s \in Reqs :
    /\ reqs[r].stored /\ reqs[r].decoded.events # <<>>
    /\ reqs[s].stored /\ reqs[s].seen = <<>> /\ reqs[s].body.id = 3
    /\ reqs[r].seen # <<>>
    /\ store = [events |-> <<>>, destination |-> ""]

=============================================================================
